---- MODULE Spec2Model ----
(***************************************************************************)
(* Concrete pour scheduler (src/main.py): the pour record store, its two   *)
(* creation entry points, soft deletion, the JSON snapshot file and the    *)
(* reload of the snapshot at process start.                                *)
(*                                                                         *)
(* Text (date inputs, the strings written to the snapshot) is a sequence   *)
(* of one-character strings, so that parsing and formatting are computed   *)
(* character by character.  Volumes are in tenths of a cubic metre.        *)
(***************************************************************************)
EXTENDS Integers, Sequences, FiniteSets, TLC

VARIABLES
    pours,           \* main.py:34  the active list
    deleted_pours,   \* main.py:35  the deleted log, runtime only
    data_file,       \* main.py:16  pours.json on disk
    issued,          \* history: every id uuid4() has returned
    persisted,       \* history: the active list as of the last completed write
    lifetime,        \* history: ids of the records created or loaded since the last start
    faulted,         \* history: some write of the snapshot has failed
    last,            \* history: the last request and its response
    threads          \* the requests that run at the same time, each with its
                     \* place in its handler and its local variables

vars == <<pours, deleted_pours, data_file, issued, persisted,
          lifetime, faulted, last, threads>>

\* Number of records the model creates (size of the uuid4 pool).
MaxPours == 2

-----------------------------------------------------------------------------
(* Text *)

DigitChars == <<"0", "1", "2", "3", "4", "5", "6", "7", "8", "9">>

IsDigit(c) == \E i \in 1..10 : DigitChars[i] = c

DigitVal(c) == (CHOOSE i \in 1..10 : DigitChars[i] = c) - 1

\* s[i] when i is inside s, "" (no character) otherwise.
At(s, i) == IF i \in 1..Len(s) THEN s[i] ELSE ""

Pad2(n) == <<DigitChars[((n \div 10) % 10) + 1], DigitChars[(n % 10) + 1]>>

Pad4(n) == Pad2(n \div 100) \o Pad2(n % 100)

\* The value of ndigits digit characters of s starting at i.
RECURSIVE NumAt(_, _, _)
NumAt(s, i, ndigits) ==
    IF ndigits = 0 THEN 0
    ELSE 10 * NumAt(s, i, ndigits - 1) + DigitVal(s[i + ndigits - 1])

AllDigits(s, i, ndigits) == \A k \in i..(i + ndigits - 1) : IsDigit(At(s, k))

-----------------------------------------------------------------------------
(* datetime *)

None == "None"

IsLeap(y) == (y % 4 = 0 /\ y % 100 # 0) \/ y % 400 = 0

DaysInMonth(y, m) ==
    IF m = 2 THEN (IF IsLeap(y) THEN 29 ELSE 28)
    ELSE IF m \in {4, 6, 9, 11} THEN 30 ELSE 31

Failure == [ok |-> FALSE]

Success(v) == [ok |-> TRUE, value |-> v]

\* datetime(year, month, day, hour, minute, second): ValueError when a field
\* is out of range.
datetime(y, m, d, hh, mi, ss) ==
    IF /\ y \in 1..9999
       /\ m \in 1..12
       /\ d \in 1..DaysInMonth(y, m)
       /\ hh \in 0..23 /\ mi \in 0..59 /\ ss \in 0..59
    THEN Success([year |-> y, month |-> m, day |-> d,
                  hour |-> hh, minute |-> mi, second |-> ss])
    ELSE Failure

\* Width of the %m field at position i: 1[0-2] | 0[1-9] | [1-9]; 0 = no match.
MonthWidth(s, i) ==
    IF At(s, i) = "1" /\ At(s, i + 1) \in {"0", "1", "2"} THEN 2
    ELSE IF At(s, i) = "0" /\ IsDigit(At(s, i + 1)) /\ At(s, i + 1) # "0" THEN 2
    ELSE IF IsDigit(At(s, i)) /\ At(s, i) # "0" THEN 1
    ELSE 0

\* Width of the %d field at position i: 3[01] | [12]\d | 0[1-9] | [1-9].
DayWidth(s, i) ==
    IF At(s, i) = "3" /\ At(s, i + 1) \in {"0", "1"} THEN 2
    ELSE IF At(s, i) \in {"1", "2"} /\ IsDigit(At(s, i + 1)) THEN 2
    ELSE IF At(s, i) = "0" /\ IsDigit(At(s, i + 1)) /\ At(s, i + 1) # "0" THEN 2
    ELSE IF IsDigit(At(s, i)) /\ At(s, i) # "0" THEN 1
    ELSE 0

\* datetime.strptime(s, "%Y-%m-%d"): four digits, "-", month, "-", day and
\* nothing after; then the fields must make a calendar date.
strptime(s) ==
    IF ~(AllDigits(s, 1, 4) /\ At(s, 5) = "-") THEN Failure
    ELSE LET mw == MonthWidth(s, 6) IN
         IF mw = 0 \/ At(s, 6 + mw) # "-" THEN Failure
         ELSE LET dw == DayWidth(s, 7 + mw) IN
              IF dw = 0 \/ Len(s) # 6 + mw + dw THEN Failure
              ELSE datetime(NumAt(s, 1, 4), NumAt(s, 6, mw),
                            NumAt(s, 7 + mw, dw), 0, 0, 0)

\* str(datetime): "YYYY-MM-DD HH:MM:SS".
StrDatetime(dt) ==
    Pad4(dt.year) \o <<"-">> \o Pad2(dt.month) \o <<"-">> \o Pad2(dt.day)
    \o <<" ">> \o Pad2(dt.hour) \o <<":">> \o Pad2(dt.minute)
    \o <<":">> \o Pad2(dt.second)

\* strftime("%Y-%m-%d")
StrfDate(dt) ==
    Pad4(dt.year) \o <<"-">> \o Pad2(dt.month) \o <<"-">> \o Pad2(dt.day)

\* pydantic's validation of a `datetime` field given as text: YYYY-MM-DD,
\* then either nothing (midnight of that date; pydantic 1 wants a time) or
\* "T" or " " and HH:MM:SS.
ParseDatetime(s) ==
    IF ~(/\ AllDigits(s, 1, 4) /\ At(s, 5) = "-"
         /\ AllDigits(s, 6, 2) /\ At(s, 8) = "-"
         /\ AllDigits(s, 9, 2))
    THEN Failure
    ELSE IF Len(s) = 10
    THEN datetime(NumAt(s, 1, 4), NumAt(s, 6, 2), NumAt(s, 9, 2), 0, 0, 0)
    ELSE IF /\ Len(s) = 19
            /\ s[11] \in {"T", " "}
            /\ AllDigits(s, 12, 2) /\ s[14] = ":"
            /\ AllDigits(s, 15, 2) /\ s[17] = ":"
            /\ AllDigits(s, 18, 2)
    THEN datetime(NumAt(s, 1, 4), NumAt(s, 6, 2), NumAt(s, 9, 2),
                  NumAt(s, 12, 2), NumAt(s, 15, 2), NumAt(s, 18, 2))
    ELSE Failure

-----------------------------------------------------------------------------
(* Company registry and records *)

PREDEFINED_COMPANIES == {"PCL", "Graham", "Bird"}

\* Pour(...) with area and tag passed in each other's place.
Pour_AreaTagSwapped(id, company, area, tag, date, volume_m3, comment) ==
    [id |-> id, company |-> company, area |-> tag, tag |-> area,
     date |-> date, volume_m3 |-> volume_m3, comment |-> comment]

\* Pour(id=..., company=..., ...): the record of main.py:46-53.
Pour(id, company, area, tag, date, volume_m3, comment) ==
    [id |-> id, company |-> company, area |-> area, tag |-> tag,
     date |-> date, volume_m3 |-> volume_m3, comment |-> comment]

\* The ids uuid4() draws from; NilUUID is an id that is never drawn.
UUIDs == 1..MaxPours

\* An id generator that returns the same id every time.
uuid4_Constant(used) == 1

\* uuid4(): an id that was never returned before (which one does not matter:
\* the least).  used is the set of ids returned so far.
uuid4(used) == CHOOSE id \in UUIDs \ used : \A other \in UUIDs \ used : id <= other

NilUUID == 0

\* str(UUID) and its parse: one digit character stands for the 36 of a UUID.
StrUUID(u) == <<DigitChars[u + 1]>>

ParseUUID(s) ==
    IF Len(s) = 1 /\ IsDigit(At(s, 1)) THEN Success(DigitVal(s[1])) ELSE Failure

-----------------------------------------------------------------------------
(* The snapshot file *)

JsonNull == "null"

MissingFile == [kind |-> "missing"]

\* A file that is not a complete JSON document (a write that stopped part way).
TornFile == [kind |-> "torn"]

JsonFile(data) == [kind |-> "json", data |-> data]

\* json.dump that writes the day of the date and drops its time.
PourDict_DateOnly(p) ==
    [id |-> StrUUID(p.id), company |-> p.company, area |-> p.area,
     tag |-> p.tag,
     date |-> StrDatetime([p.date EXCEPT !.hour = 0, !.minute = 0, !.second = 0]),
     volume_m3 |-> p.volume_m3,
     comment |-> IF p.comment = None THEN JsonNull ELSE p.comment]

\* json.dump(p.dict(), default=str): id and date become their str(), None
\* becomes null, the other fields are written as they are.
PourDict(p) ==
    [id |-> StrUUID(p.id), company |-> p.company, area |-> p.area,
     tag |-> p.tag, date |-> StrDatetime(p.date), volume_m3 |-> p.volume_m3,
     comment |-> IF p.comment = None THEN JsonNull ELSE p.comment]

\* save_data(): what pours.json holds afterwards.  io is how the write goes:
\* "ok"; "open_fails" (open() raises, the file is untouched); "write_fails"
\* (open() has truncated the file and json.dump raises part way).
save_data(active, file, io) ==
    CASE io = "ok" -> JsonFile([i \in 1..Len(active) |-> PourDict(active[i])])
      [] io = "open_fails" -> file
      [] io = "write_fails" -> TornFile

IOOutcomes == {"ok", "open_fails", "write_fails"}

\* Pour(**d) on one dict of the snapshot.
PourFromDict(d) ==
    Pour(ParseUUID(d.id).value, d.company, d.area, d.tag,
         ParseDatetime(d.date).value, d.volume_m3,
         IF d.comment = JsonNull THEN None ELSE d.comment)

\* load_data(): [] when the file is missing or is not JSON.
load_data(file) ==
    IF file.kind = "json"
    THEN [i \in 1..Len(file.data) |-> PourFromDict(file.data[i])]
    ELSE <<>>

\* A JSON document that is not a list: a number, null.
JsonScalarFile == [kind |-> "json_scalar"]

PourFields == {"id", "company", "area", "tag", "date", "volume_m3"}

\* Pour(**d) returns: every required field is there and of its type.  (It
\* raises pydantic's ValidationError otherwise.)
PourValidates(d) ==
    /\ PourFields \subseteq DOMAIN d
    /\ ParseUUID(d.id).ok
    /\ ParseDatetime(d.date).ok
    /\ d.volume_m3 \in Int

\* load_data() does not return: json.load gave something that cannot be
\* iterated into dicts (TypeError) or a dict that Pour refuses
\* (ValidationError); only json.JSONDecodeError is caught.
load_data_raises(file) ==
    \/ file.kind = "json_scalar"
    \/ /\ file.kind = "json"
       /\ \E i \in 1..Len(file.data) : ~PourValidates(file.data[i])

-----------------------------------------------------------------------------
(* Request inputs *)

Date_2024_03_15 == <<"2", "0", "2", "4", "-", "0", "3", "-", "1", "5">>

Date_2024_3_15 == <<"2", "0", "2", "4", "-", "3", "-", "1", "5">>

Date_2024_02_30 == <<"2", "0", "2", "4", "-", "0", "2", "-", "3", "0">>

Date_Feb_3 == <<"F", "e", "b", " ", "3">>

Date_2024_01_05T10_30 ==
    <<"2", "0", "2", "4", "-", "0", "1", "-", "0", "5",
      "T", "1", "0", ":", "3", "0", ":", "0", "0">>

\* The JSON bodies of POST /pour/ (PourCreate, main.py:55-61).
PourCreates ==
    [company : {"PCL", "Acme"}, area : {"West Wing"}, tag : {"Slab-4"},
     date : {Date_2024_01_05T10_30, Date_2024_02_30, Date_Feb_3},
     volume_m3 : {125}, comment : {"rain delay"}]

\* The form fields of POST /submit (main.py:177).
Forms ==
    [company : {"Bird", "Acme"}, area : {"Level 2"}, tag : {"Col-7"},
     date : {Date_2024_03_15, Date_2024_3_15, Date_2024_02_30, Date_Feb_3},
     volume : {-5}, comment : {None}]

-----------------------------------------------------------------------------
(* Store *)

Ids(list) == {list[i].id : i \in 1..Len(list)}

Records(list) == {list[i] : i \in 1..Len(list)}

\* for p in pours: if p.id == pour_id: found = p; break
\* The index of the first match, 0 when there is none.
Find(list, pour_id) ==
    IF pour_id \in Ids(list)
    THEN CHOOSE i \in 1..Len(list) :
            /\ list[i].id = pour_id
            /\ \A j \in 1..(i - 1) : list[j].id # pour_id
    ELSE 0

\* list.pop(0) in place of list.remove(x).
ListRemove_PopFirst(list, x) == Tail(list)

\* A remove that is left out.
ListRemove_Nothing(list, x) == list

\* list.remove(x): drops the first element equal to x.
ListRemove(list, x) ==
    LET i == CHOOSE k \in 1..Len(list) :
                 list[k] = x /\ \A j \in 1..(k - 1) : list[j] # x
    IN  [k \in 1..(Len(list) - 1) |-> IF k < i THEN list[k] ELSE list[k + 1]]

Response(op, req, status, body) ==
    [op |-> op, req |-> req, status |-> status, body |-> body]

\* raise HTTPException(...) (or FastAPI's 422) before the store is touched.
Reject(op, req, status, detail) ==
    /\ last' = Response(op, req, status, detail)
    /\ UNCHANGED <<pours, deleted_pours, data_file, issued, persisted,
                   lifetime, faulted>>

\* save_data() called before pours.append(pour).
AppendAndSave_SaveFirst(pour, io) ==
    /\ pours' = Append(pours, pour)
    /\ data_file' = save_data(pours, data_file, io)
    /\ persisted' = IF io = "ok" THEN pours ELSE persisted
    /\ issued' = issued \cup {pour.id}
    /\ lifetime' = lifetime \cup {pour.id}
    /\ faulted' = (faulted \/ io # "ok")
    /\ UNCHANGED deleted_pours

\* pours.append(pour); save_data()
AppendAndSave(pour, io) ==
    /\ pours' = Append(pours, pour)
    /\ data_file' = save_data(pours', data_file, io)
    /\ persisted' = IF io = "ok" THEN pours' ELSE persisted
    /\ issued' = issued \cup {pour.id}
    /\ lifetime' = lifetime \cup {pour.id}
    /\ faulted' = (faulted \/ io # "ok")
    /\ UNCHANGED deleted_pours

\* POST /pour/
submit_pour(pour_data) ==
    LET date == ParseDatetime(pour_data.date) IN
    IF ~date.ok
    THEN Reject("submit_pour", pour_data, 422, "datetime_parsing")
    ELSE IF pour_data.company \notin PREDEFINED_COMPANIES
    THEN Reject("submit_pour", pour_data, 400, "Invalid company")
    ELSE /\ issued # UUIDs
         /\ LET pour == Pour(uuid4(issued), pour_data.company, pour_data.area,
                             pour_data.tag, date.value, pour_data.volume_m3,
                             pour_data.comment)
            IN  \E io \in IOOutcomes :
                  /\ AppendAndSave(pour, io)
                  /\ last' = IF io = "ok"
                             THEN Response("submit_pour", pour_data, 200, pour)
                             ELSE Response("submit_pour", pour_data, 500,
                                           "Internal Server Error")

\* handle_form with the company checked after the record is appended and saved.
handle_form_CommitsFirst(form) ==
    LET date_parsed == strptime(form.date) IN
    IF ~date_parsed.ok
    THEN Reject("handle_form", form, 400, "Invalid date format")
    ELSE /\ issued # UUIDs
         /\ LET pour == Pour(uuid4(issued), form.company, form.area, form.tag,
                             date_parsed.value, form.volume, form.comment)
            IN  \E io \in IOOutcomes :
                  /\ AppendAndSave(pour, io)
                  /\ last' = IF form.company \notin PREDEFINED_COMPANIES
                             THEN Response("handle_form", form, 400,
                                           "Invalid company")
                             ELSE IF io = "ok"
                             THEN Response("handle_form", form, 303, "/calendar")
                             ELSE Response("handle_form", form, 500,
                                           "Internal Server Error")

\* POST /submit
handle_form(form) ==
    LET date_parsed == strptime(form.date) IN
    IF ~date_parsed.ok
    THEN Reject("handle_form", form, 400, "Invalid date format")
    ELSE IF form.company \notin PREDEFINED_COMPANIES
    THEN Reject("handle_form", form, 400, "Invalid company")
    ELSE /\ issued # UUIDs
         /\ LET pour == Pour(uuid4(issued), form.company, form.area, form.tag,
                             date_parsed.value, form.volume, form.comment)
            IN  \E io \in IOOutcomes :
                  /\ AppendAndSave(pour, io)
                  /\ last' = IF io = "ok"
                             THEN Response("handle_form", form, 303, "/calendar")
                             ELSE Response("handle_form", form, 500,
                                           "Internal Server Error")

\* delete_pour with save_data() called whether or not a record was found.
delete_pour_SavesAlways(pour_id) ==
    LET i == Find(pours, pour_id) IN
    \E io \in IOOutcomes :
      /\ pours' = IF i # 0 THEN ListRemove(pours, pours[i]) ELSE pours
      /\ deleted_pours' = IF i # 0 THEN Append(deleted_pours, pours[i])
                          ELSE deleted_pours
      /\ data_file' = save_data(pours', data_file, io)
      /\ persisted' = IF io = "ok" THEN pours' ELSE persisted
      /\ faulted' = (faulted \/ io # "ok")
      /\ last' = IF io = "ok"
                 THEN Response("delete_pour", [pour_id |-> pour_id], 200,
                               [status |-> "deleted"])
                 ELSE Response("delete_pour", [pour_id |-> pour_id], 500,
                               "Internal Server Error")
      /\ UNCHANGED <<issued, lifetime>>

\* delete_pour with deleted_pours.insert(0, found) in place of append.
delete_pour_Prepends(pour_id) ==
    LET i == Find(pours, pour_id) IN
    IF i # 0
    THEN LET found == pours[i] IN
         \E io \in IOOutcomes :
           /\ pours' = ListRemove(pours, found)
           /\ deleted_pours' = <<found>> \o deleted_pours
           /\ data_file' = save_data(pours', data_file, io)
           /\ persisted' = IF io = "ok" THEN pours' ELSE persisted
           /\ faulted' = (faulted \/ io # "ok")
           /\ last' = IF io = "ok"
                      THEN Response("delete_pour", [pour_id |-> pour_id], 200,
                                    [status |-> "deleted"])
                      ELSE Response("delete_pour", [pour_id |-> pour_id], 500,
                                    "Internal Server Error")
           /\ UNCHANGED <<issued, lifetime>>
    ELSE /\ last' = Response("delete_pour", [pour_id |-> pour_id], 200,
                             [status |-> "deleted"])
         /\ UNCHANGED <<pours, deleted_pours, data_file, issued, persisted,
                        lifetime, faulted>>

\* delete_pour with save_data() called before pours.remove(found).
delete_pour_SavesFirst(pour_id) ==
    LET i == Find(pours, pour_id) IN
    IF i # 0
    THEN LET found == pours[i] IN
         \E io \in IOOutcomes :
           /\ data_file' = save_data(pours, data_file, io)
           /\ pours' = ListRemove(pours, found)
           /\ deleted_pours' = Append(deleted_pours, found)
           /\ persisted' = IF io = "ok" THEN pours ELSE persisted
           /\ faulted' = (faulted \/ io # "ok")
           /\ last' = IF io = "ok"
                      THEN Response("delete_pour", [pour_id |-> pour_id], 200,
                                    [status |-> "deleted"])
                      ELSE Response("delete_pour", [pour_id |-> pour_id], 500,
                                    "Internal Server Error")
           /\ UNCHANGED <<issued, lifetime>>
    ELSE /\ last' = Response("delete_pour", [pour_id |-> pour_id], 200,
                             [status |-> "deleted"])
         /\ UNCHANGED <<pours, deleted_pours, data_file, issued, persisted,
                        lifetime, faulted>>

\* POST /delete/{pour_id}
delete_pour(pour_id) ==
    LET i == Find(pours, pour_id) IN
    IF i # 0
    THEN LET found == pours[i] IN
         \E io \in IOOutcomes :
           /\ pours' = ListRemove(pours, found)
           /\ deleted_pours' = Append(deleted_pours, found)
           /\ data_file' = save_data(pours', data_file, io)
           /\ persisted' = IF io = "ok" THEN pours' ELSE persisted
           /\ faulted' = (faulted \/ io # "ok")
           /\ last' = IF io = "ok"
                      THEN Response("delete_pour", [pour_id |-> pour_id], 200,
                                    [status |-> "deleted"])
                      ELSE Response("delete_pour", [pour_id |-> pour_id], 500,
                                    "Internal Server Error")
           /\ UNCHANGED <<issued, lifetime>>
    ELSE /\ last' = Response("delete_pour", [pour_id |-> pour_id], 200,
                             [status |-> "deleted"])
         /\ UNCHANGED <<pours, deleted_pours, data_file, issued, persisted,
                        lifetime, faulted>>

-----------------------------------------------------------------------------
(* Projections *)

COMPANY_COLORS ==
    [c \in PREDEFINED_COMPANIES |->
        CASE c = "PCL" -> "#C7A600" [] c = "Graham" -> "#FF0000"
          [] c = "Bird" -> "#008000"]

\* COMPANY_COLORS.get(company, "#000000")
ColorFor(company) ==
    IF company \in DOMAIN COMPANY_COLORS THEN COMPANY_COLORS[company]
    ELSE "#000000"

\* The decimal digits of a natural number.
RECURSIVE Digits(_)
Digits(n) ==
    IF n < 10 THEN <<DigitChars[n + 1]>>
    ELSE Digits(n \div 10) \o <<DigitChars[(n % 10) + 1]>>

\* f"{volume_m3:.1f}" (and f"{volume_m3}") of a volume held in tenths.
FormatVolume(v) ==
    LET a == IF v < 0 THEN -v ELSE v IN
    (IF v < 0 THEN <<"-">> ELSE <<>>)
        \o Digits(a \div 10) \o <<".">> \o <<DigitChars[(a % 10) + 1]>>

\* `if p.comment`: a comment that is neither None nor empty.
HasComment(p) == p.comment # None /\ p.comment # ""

\* f"{company}: {tag} ({area}) - {volume}m3" and the optional " | {comment}":
\* the pieces of the text, in order ("m3" stands for the cubic metre sign).
Title(p) ==
    <<p.company, ": ", p.tag, " (", p.area, ") - ", FormatVolume(p.volume_m3),
      "m3">> \o (IF HasComment(p) THEN <<" | ", p.comment>> ELSE <<>>)

\* One event of the calendar (main.py:93-98).
Event(p) ==
    [id |-> StrUUID(p.id), title |-> Title(p), start |-> StrfDate(p.date),
     color |-> ColorFor(p.company)]

\* One <li> of the deleted log (main.py:102).
LogEntry(p) == <<StrfDate(p.date), " - ">> \o Title(p)

Placeholder == <<"No deleted pours yet.">>

\* list[::-1]
Reversed(list) == [k \in 1..Len(list) |-> list[Len(list) + 1 - k]]

\* The entries in the order of the deleted list, not reversed.
DeletedLog_NotReversed(deleted) ==
    IF deleted = <<>> THEN <<Placeholder>>
    ELSE [k \in 1..Len(deleted) |-> LogEntry(deleted[k])]

\* The <ul> of the deleted log: the entries of deleted_pours[::-1], or the
\* placeholder when they join to the empty text (main.py:101-104, 171).
DeletedLog(deleted) ==
    IF deleted = <<>> THEN <<Placeholder>>
    ELSE [k \in 1..Len(deleted) |-> LogEntry(Reversed(deleted)[k])]

\* a < b on datetimes.
DateLess(a, b) ==
    LET ka == <<a.year, a.month, a.day, a.hour, a.minute, a.second>>
        kb == <<b.year, b.month, b.day, b.hour, b.minute, b.second>>
    IN  \E i \in 1..6 : ka[i] < kb[i] /\ \A j \in 1..(i - 1) : ka[j] = kb[j]

\* p put into the sorted list after every record that is not later than it.
InsertByDate(sorted, p) ==
    LET n == Cardinality({i \in 1..Len(sorted) : ~DateLess(p.date, sorted[i].date)})
    IN  SubSeq(sorted, 1, n) \o <<p>> \o SubSeq(sorted, n + 1, Len(sorted))

\* The list as it is, unsorted.
SortedByDate_Unsorted(list) == list

\* sorted(pours, key=lambda x: x.date): a new list, stable.
RECURSIVE SortedByDate(_)
SortedByDate(list) ==
    IF list = <<>> THEN <<>>
    ELSE InsertByDate(SortedByDate(SubSeq(list, 1, Len(list) - 1)),
                      list[Len(list)])

\* One row of the report (main.py:229-236).
Row(p) ==
    <<StrfDate(p.date), p.company, p.area, p.tag, FormatVolume(p.volume_m3),
      IF p.comment = None THEN "" ELSE p.comment>>

\* A read that leaves the store as it is.
Answer(op, status, body) ==
    /\ last' = Response(op, None, status, body)
    /\ UNCHANGED <<pours, deleted_pours, data_file, issued, persisted,
                   lifetime, faulted>>

\* GET /pours/
list_pours == Answer("list_pours", 200, pours)

\* GET /calendar
calendar_view ==
    Answer("calendar_view", 200,
           [events |-> [i \in 1..Len(pours) |-> Event(pours[i])],
            deleted_log |-> DeletedLog(deleted_pours)])

\* export_pdf with pours.sort(...) in place of sorted(pours, ...).
export_pdf_SortsInPlace ==
    \E rendered \in BOOLEAN :
      /\ pours' = SortedByDate(pours)
      /\ last' = IF rendered
                 THEN Response("export_pdf", None, 200,
                               [i \in 1..Len(pours) |-> Row(pours'[i])])
                 ELSE Response("export_pdf", None, 500, "Internal Server Error")
      /\ UNCHANGED <<deleted_pours, data_file, issued, persisted, lifetime,
                     faulted>>

\* GET /export/pdf : the rows of the table; rendered is whether the PDF
\* library wrote the document or raised.
export_pdf ==
    \E rendered \in BOOLEAN :
      IF rendered
      THEN Answer("export_pdf", 200,
                  [i \in 1..Len(pours) |-> Row(SortedByDate(pours)[i])])
      ELSE Answer("export_pdf", 500, "Internal Server Error")

\* The process stops and starts again: the module level runs anew
\* (pours = load_data(); deleted_pours = []).
\* and, when load_data() raises, stops there: the process exits and there
\* are no lists.
Restart ==
    /\ IF load_data_raises(data_file)
       THEN /\ pours' = <<>>
            /\ last' = Response("restart", None, 1, "Traceback")
       ELSE /\ pours' = load_data(data_file)
            /\ last' = Response("restart", None, 0, None)
    /\ deleted_pours' = <<>>
    /\ lifetime' = Ids(pours')
    /\ UNCHANGED <<data_file, issued, persisted, faulted>>

Init ==
    /\ data_file = MissingFile
    /\ pours = load_data(data_file)
    /\ deleted_pours = <<>>
    /\ issued = {}
    /\ persisted = <<>>
    /\ lifetime = {}
    /\ faulted = FALSE
    /\ last = Response("start", None, 0, None)
    /\ threads = <<>>

\* One request at a time, each handler run from its first line to its last.
Next ==
    \/ (\E pour_data \in PourCreates : submit_pour(pour_data)) /\ UNCHANGED threads
    \/ (\E form \in Forms : handle_form(form)) /\ UNCHANGED threads
    \/ (\E pour_id \in UUIDs \cup {NilUUID} : delete_pour(pour_id)) /\ UNCHANGED threads
    \/ list_pours /\ UNCHANGED threads
    \/ calendar_view /\ UNCHANGED threads
    \/ export_pdf /\ UNCHANGED threads
    \/ Restart /\ UNCHANGED threads

Spec == Init /\ [][Next]_vars

\* The process is running: its last start did not end in a traceback.
Up == ~(last.op = "restart" /\ last.status # 0)

\* Snapshot files this program did not write: not JSON, JSON that is not a
\* list, a record without its volume, a record whose date is no date, and
\* the empty list.
ForeignFiles ==
    {TornFile,
     JsonScalarFile,
     JsonFile(<<[id |-> <<"1">>, company |-> "PCL", area |-> "West Wing",
                 tag |-> "Slab-4", date |-> StrDatetime(datetime(2024, 1, 5, 0, 0, 0).value),
                 comment |-> JsonNull]>>),
     JsonFile(<<[id |-> <<"1">>, company |-> "PCL", area |-> "West Wing",
                 tag |-> "Slab-4", date |-> Date_Feb_3, volume_m3 |-> 125,
                 comment |-> JsonNull]>>),
     JsonFile(<<>>)}

\* Something other than this program replaces or removes pours.json.
Tamper(file) ==
    /\ data_file' = file
    /\ UNCHANGED <<pours, deleted_pours, issued, persisted, lifetime,
                   faulted, last, threads>>

NextTampered ==
    \/ Up /\ (\E pour_data \in PourCreates : submit_pour(pour_data)) /\ UNCHANGED threads
    \/ Up /\ (\E form \in Forms : handle_form(form)) /\ UNCHANGED threads
    \/ Up /\ (\E pour_id \in UUIDs \cup {NilUUID} : delete_pour(pour_id)) /\ UNCHANGED threads
    \/ Up /\ list_pours /\ UNCHANGED threads
    \/ Up /\ calendar_view /\ UNCHANGED threads
    \/ Up /\ export_pdf /\ UNCHANGED threads
    \/ Restart /\ UNCHANGED threads
    \/ \E file \in ForeignFiles \cup {MissingFile} : Tamper(file)

\* The application with a snapshot file that can be changed from outside.
SpecTampered == Init /\ [][NextTampered]_vars

-----------------------------------------------------------------------------
(* Requests that run at the same time *)

\* The handlers are plain `def` functions: the server runs each request on a
\* thread of its pool, with no lock around pours, deleted_pours or pours.json
\* (main.py has none).  A thread can be switched out between any two
\* statements and between two turns of a loop.

Threads == {"t1", "t2"}

\* A request that has not run its first statement.
NewThread(op, req) ==
    [op |-> op, req |-> req, pc |-> "start", i |-> 1, found |-> None,
     data |-> None, events |-> <<>>, stable |-> {}, result |-> None]

\* The record that the i-th accepted create of a fresh store leaves behind:
\* a form of /submit, then a body of /pour/, in turn.
SeedRecord(i) ==
    IF i % 2 = 1
    THEN Pour(i, "Bird", "Level 2", "Col-7", strptime(Date_2024_03_15).value,
              -5, None)
    ELSE Pour(i, "PCL", "West Wing", "Slab-4",
              ParseDatetime(Date_2024_01_05T10_30).value, 125, "rain delay")

\* The active list after k accepted creates.
Seed(k) == [i \in 1..k |-> SeedRecord(i)]

ThreadForms == {form \in Forms : form.date = Date_2024_03_15}

\* The requests that can be sent to a store of k records.
Jobs(k) ==
    {NewThread("handle_form", form) : form \in ThreadForms}
        \cup {NewThread("delete_pour", [pour_id |-> id]) : id \in 1..k}
        \cup {NewThread("calendar_view", None)}

\* Thread t goes on as next; a calendar_view that is between its first and
\* its last statement keeps, in stable, the ids that were active all along.
Advance(t, next) ==
    threads' =
        [u \in Threads |->
            LET r == IF u = t THEN next ELSE threads[u] IN
            IF r.op = "calendar_view" /\ r.pc \in {"events", "log"}
            THEN [r EXCEPT !.stable = @ \cap Ids(pours')]
            ELSE r]

Finish(t, status, body) ==
    [threads[t] EXCEPT !.pc = "done",
                       !.result = Response(threads[t].op, threads[t].req,
                                           status, body)]

\* handle_form up to `pour = Pour(...)` (main.py:178-191)
handle_form_begin(t) ==
    /\ threads[t].op = "handle_form" /\ threads[t].pc = "start"
    /\ LET form == threads[t].req
           date_parsed == strptime(form.date)
       IN  IF ~date_parsed.ok
           THEN /\ UNCHANGED <<pours, issued>>
                /\ Advance(t, Finish(t, 400, "Invalid date format"))
           ELSE IF form.company \notin PREDEFINED_COMPANIES
           THEN /\ UNCHANGED <<pours, issued>>
                /\ Advance(t, Finish(t, 400, "Invalid company"))
           ELSE /\ issued # UUIDs
                /\ issued' = issued \cup {uuid4(issued)}
                /\ UNCHANGED pours
                /\ Advance(t, [threads[t] EXCEPT
                        !.pc = "append",
                        !.found = Pour(uuid4(issued), form.company, form.area,
                                       form.tag, date_parsed.value,
                                       form.volume, form.comment)])
    /\ UNCHANGED <<deleted_pours, data_file, persisted, lifetime, faulted, last>>

\* pours.append(pour) (main.py:192)
handle_form_append(t) ==
    /\ threads[t].op = "handle_form" /\ threads[t].pc = "append"
    /\ pours' = Append(pours, threads[t].found)
    /\ Advance(t, [threads[t] EXCEPT !.pc = "save_open"])
    /\ UNCHANGED <<deleted_pours, data_file, issued, persisted, lifetime,
                   faulted, last>>

\* save_data() up to the end of json.dump: open(DATA_FILE, "w") empties the
\* file, the dicts of pours go into the buffer of f (main.py:20-21).
save_data_open(t) ==
    /\ threads[t].pc = "save_open"
    /\ data_file' = TornFile
    /\ UNCHANGED pours
    /\ Advance(t, [threads[t] EXCEPT
            !.pc = "save_close",
            !.data = [i \in 1..Len(pours) |-> PourDict(pours[i])]])
    /\ UNCHANGED <<deleted_pours, issued, persisted, lifetime, faulted, last>>

\* What the file holds after the buffer went to its start: the buffer, or,
\* over a longer document that another thread wrote meanwhile, the buffer
\* followed by the rest of that document.
Flushed(file, data) ==
    IF file.kind = "json" /\ Len(file.data) > Len(data)
    THEN TornFile
    ELSE JsonFile(data)

\* The end of `with open(...)`: the buffer is written out at the start of the
\* file; the handler returns (main.py:194, 209).
save_data_close(t) ==
    /\ threads[t].pc = "save_close"
    /\ data_file' = Flushed(data_file, threads[t].data)
    /\ UNCHANGED pours
    /\ Advance(t, IF threads[t].op = "handle_form"
                  THEN Finish(t, 303, "/calendar")
                  ELSE Finish(t, 200, [status |-> "deleted"]))
    /\ UNCHANGED <<deleted_pours, issued, persisted, lifetime, faulted, last>>

\* One turn of `for p in pours` in delete_pour (main.py:200-204): the list
\* iterator holds an index into the list as it is now.
delete_pour_find(t) ==
    /\ threads[t].op = "delete_pour" /\ threads[t].pc = "start"
    /\ UNCHANGED pours
    /\ LET i == threads[t].i IN
       Advance(t, IF i > Len(pours)
                  THEN Finish(t, 200, [status |-> "deleted"])
                  ELSE IF pours[i].id = threads[t].req.pour_id
                  THEN [threads[t] EXCEPT !.pc = "remove", !.found = pours[i]]
                  ELSE [threads[t] EXCEPT !.i = i + 1])
    /\ UNCHANGED <<deleted_pours, data_file, issued, persisted, lifetime,
                   faulted, last>>

\* A remove that does nothing when the record is not in the list.
ListRemoveOrRaise_Ignores(list, x) ==
    Success(IF x \in Records(list) THEN ListRemove(list, x) ELSE list)

\* list.remove(x): raises ValueError when x is not in the list.
ListRemoveOrRaise(list, x) ==
    IF x \in Records(list) THEN Success(ListRemove(list, x)) ELSE Failure

\* pours.remove(found) (main.py:206)
delete_pour_remove(t) ==
    /\ threads[t].op = "delete_pour" /\ threads[t].pc = "remove"
    /\ LET removed == ListRemoveOrRaise(pours, threads[t].found) IN
       IF removed.ok
       THEN /\ pours' = removed.value
            /\ Advance(t, [threads[t] EXCEPT !.pc = "append"])
       ELSE /\ UNCHANGED pours
            /\ Advance(t, Finish(t, 500, "Internal Server Error"))
    /\ UNCHANGED <<deleted_pours, data_file, issued, persisted, lifetime,
                   faulted, last>>

\* deleted_pours.append(found) (main.py:207)
delete_pour_append(t) ==
    /\ threads[t].op = "delete_pour" /\ threads[t].pc = "append"
    /\ deleted_pours' = Append(deleted_pours, threads[t].found)
    /\ UNCHANGED pours
    /\ Advance(t, [threads[t] EXCEPT !.pc = "save_open"])
    /\ UNCHANGED <<data_file, issued, persisted, lifetime, faulted, last>>

\* calendar_view is entered.
calendar_view_begin(t) ==
    /\ threads[t].op = "calendar_view" /\ threads[t].pc = "start"
    /\ UNCHANGED pours
    /\ Advance(t, [threads[t] EXCEPT !.pc = "events", !.stable = Ids(pours)])
    /\ UNCHANGED <<deleted_pours, data_file, issued, persisted, lifetime,
                   faulted, last>>

\* One turn of `for p in pours` in the events comprehension (main.py:92-100).
calendar_view_event(t) ==
    /\ threads[t].op = "calendar_view" /\ threads[t].pc = "events"
    /\ UNCHANGED pours
    /\ LET i == threads[t].i IN
       Advance(t, IF i > Len(pours)
                  THEN [threads[t] EXCEPT !.pc = "log"]
                  ELSE [threads[t] EXCEPT !.i = i + 1,
                                          !.events = Append(@, Event(pours[i]))])
    /\ UNCHANGED <<deleted_pours, data_file, issued, persisted, lifetime,
                   faulted, last>>

\* deleted_log, built from the copy deleted_pours[::-1], and the page
\* (main.py:101-174).
calendar_view_log(t) ==
    /\ threads[t].op = "calendar_view" /\ threads[t].pc = "log"
    /\ UNCHANGED pours
    /\ Advance(t, Finish(t, 200, [events |-> threads[t].events,
                                  deleted_log |-> DeletedLog(deleted_pours)]))
    /\ UNCHANGED <<deleted_pours, data_file, issued, persisted, lifetime,
                   faulted, last>>

\* A store of k records, all written out, and one request on each thread; no
\* more creates than there are ids left.
InitThreads ==
    \E k \in 0..MaxPours :
      /\ pours = Seed(k)
      /\ deleted_pours = <<>>
      /\ data_file = IF k = 0 THEN MissingFile
                     ELSE save_data(Seed(k), MissingFile, "ok")
      /\ issued = 1..k
      /\ persisted = Seed(k)
      /\ lifetime = 1..k
      /\ faulted = FALSE
      /\ last = Response("start", None, 0, None)
      /\ threads \in {f \in [Threads -> Jobs(k)] :
            k + Cardinality({t \in Threads : f[t].op = "handle_form"}) <= MaxPours}

NextThreads ==
    \/ \E t \in Threads : handle_form_begin(t)
    \/ \E t \in Threads : handle_form_append(t)
    \/ \E t \in Threads : save_data_open(t)
    \/ \E t \in Threads : save_data_close(t)
    \/ \E t \in Threads : delete_pour_find(t)
    \/ \E t \in Threads : delete_pour_remove(t)
    \/ \E t \in Threads : delete_pour_append(t)
    \/ \E t \in Threads : calendar_view_begin(t)
    \/ \E t \in Threads : calendar_view_event(t)
    \/ \E t \in Threads : calendar_view_log(t)

\* Two requests served at the same time.
SpecThreads == InitThreads /\ [][NextThreads]_vars

-----------------------------------------------------------------------------
(* Properties *)

CreateOps == {"submit_pour", "handle_form"}

\* The create request was answered with its normal response.
CreateAccepted(r) ==
    \/ r.op = "submit_pour" /\ r.status = 200
    \/ r.op = "handle_form" /\ r.status = 303

\* The create request was refused by validation.
CreateRejected(r) == r.op \in CreateOps /\ r.status \in {400, 422}

\* s is YYYY-MM-DD, zero padded, and names a day of the calendar.
IsStrictCalendarDate(s) ==
    /\ Len(s) = 10
    /\ AllDigits(s, 1, 4) /\ s[5] = "-"
    /\ AllDigits(s, 6, 2) /\ s[8] = "-"
    /\ AllDigits(s, 9, 2)
    /\ NumAt(s, 1, 4) >= 1
    /\ NumAt(s, 6, 2) \in 1..12
    /\ NumAt(s, 9, 2) \in 1..DaysInMonth(NumAt(s, 1, 4), NumAt(s, 6, 2))

\* C1: a create request, through POST /pour/ or POST /submit, is accepted if
\* and only if its company is one of PCL, Graham, Bird and its date is a
\* calendar date written strictly as YYYY-MM-DD; any other company is refused
\* as "Invalid company" and any other date as a format error.  (Requests that
\* end in a failed snapshot write are left aside.)
C1_AcceptedIffCompanyAndStrictDate ==
    (last.op \in CreateOps /\ last.status # 500) =>
        LET companyOk == last.req.company \in PREDEFINED_COMPANIES
            dateOk == IsStrictCalendarDate(last.req.date)
        IN  /\ CreateAccepted(last) <=> (companyOk /\ dateOk)
            /\ (dateOk /\ ~companyOk) => last.body = "Invalid company"
            /\ ~dateOk => last.body \in {"Invalid date format", "datetime_parsing"}

\* C2: a create request refused by validation (invalid company or unparseable
\* date) leaves the active list, the deleted log and the snapshot file exactly
\* as they were.
C2_RejectedCreateChangesNothing ==
    [][CreateRejected(last') =>
        /\ pours' = pours
        /\ deleted_pours' = deleted_pours
        /\ data_file' = data_file]_vars

\* A form was refused for its company while the store and the file held records.
C2_Witness ==
    /\ last.op = "handle_form" /\ last.status = 400
    /\ last.body = "Invalid company"
    /\ Len(pours) >= 1
    /\ data_file.kind = "json"

Unpad2(n) == IF n < 10 THEN <<DigitChars[n + 1]>> ELSE Pad2(n)

\* The ways of writing the datetime dt that the request inputs use.
WrittenForms(dt) ==
    {StrfDate(dt) \o <<"T">> \o Pad2(dt.hour) \o <<":">> \o Pad2(dt.minute)
        \o <<":">> \o Pad2(dt.second)}
    \cup (IF dt.hour = 0 /\ dt.minute = 0 /\ dt.second = 0
          THEN {StrfDate(dt),
                Pad4(dt.year) \o <<"-">> \o Unpad2(dt.month) \o <<"-">>
                    \o Unpad2(dt.day)}
          ELSE {})

SubmittedVolume(r) == IF r.op = "submit_pour" THEN r.req.volume_m3 ELSE r.req.volume

\* C3: an accepted create leaves the previous active list in place and in
\* order, followed by exactly one new record that carries the submitted
\* company, area, tag, date, volume and comment and an id that no earlier
\* record ever had; the deleted log is unchanged.
C3_AcceptedCreateAppendsOneRecord ==
    [][CreateAccepted(last') =>
        LET new == pours'[Len(pours')] IN
        /\ Len(pours') = Len(pours) + 1
        /\ SubSeq(pours', 1, Len(pours)) = pours
        /\ new.company = last'.req.company
        /\ new.area = last'.req.area
        /\ new.tag = last'.req.tag
        /\ last'.req.date \in WrittenForms(new.date)
        /\ new.volume_m3 = SubmittedVolume(last')
        /\ new.comment = last'.req.comment
        /\ new.id \notin issued
        /\ new.id \notin Ids(pours) \cup Ids(deleted_pours)
        /\ deleted_pours' = deleted_pours]_vars

\* A JSON create was accepted behind an earlier active record.
C3_Witness ==
    /\ last.op = "submit_pour" /\ last.status = 200
    /\ Len(pours) >= 2
    /\ pours[Len(pours)] = last.body

\* The number of places of list that hold a record with this id.
Count(list, id) == Cardinality({i \in 1..Len(list) : list[i].id = id})

\* list without its records of this id, the others in their order.
Without(list, id) == SelectSeq(list, LAMBDA p : p.id # id)

\* C4: delete(id) of an active id removes exactly that record from the
\* active list, appends that very record at the tail of the deleted log and
\* leaves every other record of both lists in place and in order; deleting
\* an id that is already in the deleted log adds no second copy.
C4_DeleteMovesExactlyThatRecord ==
    [][last'.op = "delete_pour" =>
        LET id == last'.req.pour_id IN
        /\ id \in Ids(pours) =>
              /\ Count(pours, id) = 1
              /\ pours' = Without(pours, id)
              /\ deleted_pours' = Append(deleted_pours, pours[Find(pours, id)])
        /\ id \in Ids(deleted_pours) =>
              /\ deleted_pours' = deleted_pours
              /\ Count(deleted_pours', id) = 1]_vars

\* The first of two active records was deleted: the other one stays active.
C4_Witness ==
    /\ last.op = "delete_pour" /\ last.status = 200
    /\ Len(pours) >= 1
    /\ Len(deleted_pours) >= 1
    /\ deleted_pours[Len(deleted_pours)].id = last.req.pour_id
    /\ last.req.pour_id < pours[1].id

\* What the response of delete tells its caller: a deletion happened.
ReportsDeleted(r) == r.status = 200 /\ r.body = [status |-> "deleted"]

\* C5: the result of delete(id) reports a deletion exactly when id matched an
\* active record at the time of the call, and reports none otherwise.
C5_DeleteResultTellsWhetherDeleted ==
    [][last'.op = "delete_pour" =>
        (ReportsDeleted(last') <=> last'.req.pour_id \in Ids(pours))]_vars

\* C6: delete(id) of an id that matches no active record (unknown, or already
\* deleted) raises no error and leaves the active list, the deleted log and
\* the snapshot file unchanged.
C6_DeleteOfUnknownIdChangesNothing ==
    [][(last'.op = "delete_pour" /\ last'.req.pour_id \notin Ids(pours)) =>
        /\ last'.status = 200
        /\ pours' = pours
        /\ deleted_pours' = deleted_pours
        /\ data_file' = data_file]_vars

\* An id that was never issued was deleted while both lists held records.
C6_Witness ==
    /\ last.op = "delete_pour" /\ last.req.pour_id = NilUUID
    /\ Len(pours) >= 1
    /\ Len(deleted_pours) >= 1

\* The record of this id is in exactly one of the two lists, once.
InExactlyOneList(id) == Count(pours, id) + Count(deleted_pours, id) = 1

\* C7, as claimed: after any sequence of create, delete and restart, every
\* record ever created is in exactly one of the active list and the deleted
\* log.  (Stated of the runs in which every snapshot write succeeded.)
C7_EveryCreatedRecordInExactlyOneList ==
    ~faulted => \A id \in issued : InExactlyOneList(id)

\* C7, amended: every record created or loaded since the process last started
\* is in exactly one of the active list and the deleted log, and the two
\* lists hold no other record.
C7_LifetimeRecordInExactlyOneList ==
    /\ \A id \in lifetime : InExactlyOneList(id)
    /\ Ids(pours) \cup Ids(deleted_pours) \subseteq lifetime

\* After the latest start one record has been deleted and another is active.
C7_Witness ==
    /\ last.op = "delete_pour"
    /\ Cardinality(lifetime) >= 2
    /\ Len(pours) >= 1
    /\ Len(deleted_pours) >= 1

\* No two places of the active list and the deleted log share an id.
DistinctIds ==
    LET all == pours \o deleted_pours IN
    \A i, j \in 1..Len(all) : all[i].id = all[j].id => i = j

\* A record that carries an id issued earlier is a record that already was in
\* one of the lists or in the snapshot file: the id went to no other record.
NoIdReassigned ==
    \A r \in Records(pours') \cup Records(deleted_pours') :
        r.id \in issued =>
            r \in Records(pours) \cup Records(deleted_pours)
                  \cup Records(load_data(data_file))

\* C8: no two records of the active list and the deleted log together share
\* an id, records loaded from the snapshot included, and an id once assigned
\* is never assigned to another record.
C8_IdsUniqueAndNeverReassigned == []DistinctIds /\ [][NoIdReassigned]_vars

\* A start has loaded two records from the snapshot.
C8_Witness ==
    /\ last.op = "restart"
    /\ Len(pours) = 2

\* The step completed a mutation: an accepted create, or a delete that
\* matched an active record and returned normally.
CompletedMutation ==
    \/ CreateAccepted(last')
    \/ /\ last'.op = "delete_pour" /\ last'.status = 200
       /\ last'.req.pour_id \in Ids(pours)

\* C9: after every completed mutation whose snapshot write succeeded, the
\* snapshot file holds exactly the records of the active list, in the same
\* order and with the same field values.
C9_SnapshotFollowsEveryMutation ==
    [][CompletedMutation =>
        /\ data_file'.kind = "json"
        /\ Len(data_file'.data) = Len(pours')
        /\ load_data(data_file') = pours']_vars

\* A delete was written out and left a record in the snapshot.
C9_Witness ==
    /\ last.op = "delete_pour" /\ last.status = 200
    /\ deleted_pours # <<>>
    /\ deleted_pours[Len(deleted_pours)].id = last.req.pour_id
    /\ data_file.kind = "json"
    /\ Len(data_file.data) >= 1

-----------------------------------------------------------------------------
(* Projections and read-only operations *)

\* The export answered with the rows of its table.
Exported == last.op = "export_pdf" /\ last.status = 200

\* The day a row shows, read back from its first cell.
RowDay(row) == strptime(row[1]).value

\* rows holds one row per record of list and nothing else.
OneRowPerRecord(rows, list) ==
    /\ Len(rows) = Len(list)
    /\ \E f \in [1..Len(list) -> 1..Len(list)] :
         /\ \A i, j \in 1..Len(list) : f[i] = f[j] => i = j
         /\ \A k \in 1..Len(list) : rows[k] = Row(list[f[k]])

C15_DeletedLogNewestFirstOrPlaceholder ==
    last.op = "calendar_view" =>
        LET log == last.body.deleted_log
            n == Len(deleted_pours)
        IN  IF n = 0
            THEN log = <<Placeholder>>
            ELSE /\ Len(log) = n
                 /\ \A k \in 1..n :
                      /\ log[k] = LogEntry(deleted_pours[n + 1 - k])
                      /\ log[k] # Placeholder

\* The calendar was shown with two different records in the deleted log.
C15_Witness ==
    /\ last.op = "calendar_view"
    /\ Len(deleted_pours) = 2
    /\ LogEntry(deleted_pours[1]) # LogEntry(deleted_pours[2])
    /\ last.body.deleted_log[1] = LogEntry(deleted_pours[2])

ReadOps == {"list_pours", "calendar_view", "export_pdf"}

\* C16: listing, the calendar with its deleted log, and the export (also an
\* export that fails) leave the active list, the deleted log and the snapshot
\* file as they were; a step that changes one of them is a create, a delete
\* or a start of the process.
C16_ReadsChangeNothing ==
    [][/\ last'.op \in ReadOps =>
            UNCHANGED <<pours, deleted_pours, data_file>>
       /\ <<pours, deleted_pours, data_file>>' # <<pours, deleted_pours, data_file>>
            => last'.op \in CreateOps \cup {"delete_pour", "restart"}]_vars

\* An export failed over two records that are not in date order.
C16_Witness ==
    /\ last.op = "export_pdf" /\ last.status = 500
    /\ Len(pours) = 2
    /\ DateLess(pours[2].date, pours[1].date)
    /\ data_file.kind = "json"

\* The step changed the active list and did not leave it in the file.
MutatedButNotWritten ==
    /\ last'.op \in CreateOps \cup {"delete_pour"}
    /\ pours' # pours
    /\ data_file' # JsonFile([i \in 1..Len(pours') |-> PourDict(pours'[i])])

\* The normal result of a create or a delete.
NormalResult(r) ==
    \/ CreateAccepted(r)
    \/ r.op = "delete_pour" /\ r.status = 200

\* C17: when the snapshot write fails after a create or a delete has changed
\* the lists in memory, the change is kept and the operation still returns
\* its normal result.
C17_WriteFailureStillCompletes ==
    [][MutatedButNotWritten => NormalResult(last')]_vars

\* list is other with zero or more records put after it.
IsPrefix(other, list) ==
    /\ Len(other) <= Len(list)
    /\ SubSeq(list, 1, Len(other)) = other

\* C18: within one process lifetime the deleted log only grows at its tail
\* (no step removes, reorders or edits an entry), and a record that is in the
\* deleted log is not in the active list afterwards.
C18_DeletedLogAppendOnly ==
    [][last'.op # "restart" =>
        /\ IsPrefix(deleted_pours, deleted_pours')
        /\ Len(deleted_pours') <= Len(deleted_pours) + 1
        /\ Ids(deleted_pours') \cap Ids(pours') = {}]_vars

\* A second record was deleted and went behind the first in the log.
C18_Witness ==
    /\ last.op = "delete_pour"
    /\ Len(deleted_pours) = 2
    /\ deleted_pours[2].id = last.req.pour_id
    /\ deleted_pours[1] # deleted_pours[2]

\* The ids of the records the file holds.
FileIds(file) ==
    IF file.kind = "json"
    THEN {file.data[i].id : i \in 1..Len(file.data)}
    ELSE {}

\* The record of this id is neither active nor in the snapshot file.
Gone(id, active, file) == id \notin Ids(active) /\ StrUUID(id) \notin FileIds(file)

\* C20: a record whose delete completed with its snapshot write is neither
\* in the active list nor in the snapshot file, and no later create, delete
\* or restart brings it back to either.
C20_DeletedAndWrittenNeverReappears ==
    [][/\ (/\ last'.op = "delete_pour" /\ last'.status = 200
           /\ last'.req.pour_id \in Ids(pours))
          => Gone(last'.req.pour_id, pours', data_file')
       /\ \A id \in issued :
            Gone(id, pours, data_file) => Gone(id, pours', data_file')]_vars

\* After a written delete, a restart and a later create, the deleted record
\* is still gone while another record is active and in the file.
C20_Witness ==
    /\ CreateAccepted(last)
    /\ deleted_pours = <<>>
    /\ \E id \in issued : Gone(id, pours, data_file)
    /\ pours # <<>>
    /\ FileIds(data_file) # {}

-----------------------------------------------------------------------------
(* Startup *)

\* The file is missing or is not a list of well-formed records.
MissingOrCorrupt(file) ==
    \/ file.kind \in {"missing", "torn", "json_scalar"}
    \/ /\ file.kind = "json"
       /\ \E i \in 1..Len(file.data) : ~PourValidates(file.data[i])

\* C11: a start never fails because of the snapshot file: with the file
\* missing, not JSON, JSON that is not a list of records, or holding a record
\* with a missing or ill-typed field, the process starts and its active list
\* is empty.
C11_StartupNeverFails ==
    last.op = "restart" =>
        /\ last.status = 0
        /\ MissingOrCorrupt(data_file) => pours = <<>>

-----------------------------------------------------------------------------
(* Requests at the same time *)

\* Every request has been answered.
AllDone == \A t \in Threads : threads[t].pc = "done"

\* The thread's create was accepted.
Created(t) == threads[t].op = "handle_form" /\ threads[t].result.status = 303

\* The thread's delete, or another of the same id, took its record out.
Deleted(t) ==
    /\ threads[t].op = "delete_pour"
    /\ threads[t].req.pour_id \in Ids(deleted_pours)

\* C12: whatever the interleaving of creates and deletes that run at the
\* same time, once all of them have finished the active list holds every
\* created record and none that a delete matched, and the snapshot file reads
\* back as that final active list.
C12_ConcurrentMutationsSerialise ==
    AllDone =>
        /\ \A t \in Threads : Created(t) => threads[t].found \in Records(pours)
        /\ \A t \in Threads : Deleted(t) => threads[t].req.pour_id \notin Ids(pours)
        /\ ~load_data_raises(data_file)
        /\ load_data(data_file) = pours

\* The calendar answered by this thread.
Shown(t) == threads[t].result.body

\* The ids of the events of a page.
EventIds(events) == {events[i].id : i \in 1..Len(events)}

\* C13: a calendar read that runs while creates and deletes run returns what
\* the store held at one instant: it leaves out no record that was active
\* from its first statement to its last, shows no record twice, and shows no
\* record both among the active events and in the deleted log.
C13_ReadSeesOneInstant ==
    \A t \in Threads :
        (threads[t].op = "calendar_view" /\ threads[t].pc = "done") =>
            /\ \A id \in threads[t].stable : StrUUID(id) \in EventIds(Shown(t).events)
            /\ \A i, j \in 1..Len(Shown(t).events) :
                 Shown(t).events[i].id = Shown(t).events[j].id => i = j
            /\ \A p \in Records(pours) \cup Records(deleted_pours) :
                 ~(/\ Event(p) \in Records(Shown(t).events)
                   /\ LogEntry(p) \in Records(Shown(t).deleted_log))

\* Both threads delete the same record of the store.
SameDelete ==
    /\ \A t \in Threads : threads[t].op = "delete_pour"
    /\ \A t, u \in Threads : threads[t].req = threads[u].req

\* C19: two deletes of the same active id that run at the same time, under
\* every interleaving of their find, remove, append and write steps: the
\* record is never in the deleted log twice, and once both have finished it
\* is there exactly once, it is not active, and every other record is still
\* active, in its place.
C19_ConcurrentSameDeleteOnce ==
    SameDelete =>
        \A t \in Threads :
            LET id == threads[t].req.pour_id IN
            /\ Count(deleted_pours, id) <= 1
            /\ AllDone =>
                 /\ Count(deleted_pours, id) = 1
                 /\ Count(pours, id) = 0
                 /\ pours = Without(Seed(Cardinality(lifetime)), id)

\* Both deletes had found the record; one removed it and the other's remove
\* raised, with another record in the store.
C19_Witness ==
    /\ SameDelete
    /\ AllDone
    /\ \E t \in Threads : threads[t].result.status = 500
    /\ \E t \in Threads : threads[t].result.status = 200
    /\ Len(deleted_pours) = 1
    /\ Len(pours) >= 1

====
